---- MODULE Spec2Model ----
(***************************************************************************)
(* TIFFTrim: trimming and splitting of a 3D TIFF stack along the frame     *)
(* axis (src/tifftrim/trim.py) and its command line (src/tifftrim/cli.py). *)
(*                                                                         *)
(* Text is a sequence of one-character strings.  An optional value         *)
(* (Python's None) is a sequence of length at most one.                    *)
(***************************************************************************)
EXTENDS Integers, Sequences, FiniteSets, TLC

\* ------------------------------------------------------------------ bounds
MaxFrames == 3
MaxTags == 2
MaxChunk == 3
MaxTextLen == 4

\* ------------------------------------------------------------ optional values
None == <<>>
Some(x) == <<x>>
IsNone(o) == o = <<>>
Val(o) == o[1]

\* ------------------------------------------------------------------- text
DigitChars == <<"0", "1", "2", "3", "4", "5", "6", "7", "8", "9">>

IsDigit(c) == \E d \in 1..10 : DigitChars[d] = c

DigitVal(c) == (CHOOSE d \in 1..10 : DigitChars[d] = c) - 1

IsSpace(c) == c = " "

\* str.strip(): leading and trailing whitespace removed
RECURSIVE LStrip(_)
LStrip(s) == IF s # <<>> /\ IsSpace(Head(s)) THEN LStrip(Tail(s)) ELSE s

RECURSIVE RStrip(_)
RStrip(s) ==
  IF s # <<>> /\ IsSpace(s[Len(s)]) THEN RStrip(SubSeq(s, 1, Len(s) - 1)) ELSE s

Strip(s) == RStrip(LStrip(s))

\* str(int): decimal digits, "-" in front of a negative number
RECURSIVE NatToText(_)
NatToText(n) ==
  IF n < 10 THEN <<DigitChars[n + 1]>>
  ELSE NatToText(n \div 10) \o <<DigitChars[(n % 10) + 1]>>

IntToText(n) == IF n < 0 THEN <<"-">> \o NatToText(0 - n) ELSE NatToText(n)

\* int(str): surrounding whitespace, an optional sign, then decimal digits
\* that single underscores may separate
Unsigned(s) == IF s # <<>> /\ Head(s) \in {"+", "-"} THEN Tail(s) ELSE s

IsDigitGroups(s) ==
  /\ s # <<>>
  /\ IsDigit(s[1])
  /\ IsDigit(s[Len(s)])
  /\ \A i \in 1..Len(s) : IsDigit(s[i]) \/ s[i] = "_"
  /\ \A i \in 1..(Len(s) - 1) : ~(s[i] = "_" /\ s[i + 1] = "_")

\* a literal test that knows no sign
IsIntLiteralUnsigned(s) == IsDigitGroups(Strip(s))

IsIntLiteral(s) == IsDigitGroups(Unsigned(Strip(s)))

RECURSIVE DigitsValue(_)
DigitsValue(s) ==
  IF s = <<>> THEN 0
  ELSE IF s[Len(s)] = "_" THEN DigitsValue(SubSeq(s, 1, Len(s) - 1))
  ELSE 10 * DigitsValue(SubSeq(s, 1, Len(s) - 1)) + DigitVal(s[Len(s)])

ParseInt(s) ==
  LET t == Strip(s)
  IN IF t # <<>> /\ Head(t) = "-" THEN 0 - DigitsValue(Tail(t))
     ELSE DigitsValue(Unsigned(t))

\* ":" in text, and text.split(":", 1)
HasColon(s) == \E i \in 1..Len(s) : s[i] = ":"

FirstColon(s) == CHOOSE i \in 1..Len(s) : s[i] = ":" /\ \A j \in 1..(i - 1) : s[j] # ":"

BeforeColon(s) == SubSeq(s, 1, FirstColon(s) - 1)

AfterColon(s) == SubSeq(s, FirstColon(s) + 1, Len(s))

\* ------------------------------------------------------- parse_frame_range
ParseError(kind) == [ok |-> FALSE, start |-> 0, end |-> None, error |-> kind]

ParseOk(s, e) == [ok |-> TRUE, start |-> s, end |-> e, error |-> "none"]

parse_frame_range(range_text) ==
  LET text == Strip(range_text)
  IN IF ~HasColon(text) THEN ParseError("format: no separator")
     ELSE LET start_str == Strip(BeforeColon(text))
              end_str == Strip(AfterColon(text))
          IN IF start_str = <<>> THEN ParseError("format: empty start")
             ELSE IF ~IsIntLiteral(start_str) THEN ParseError("invalid literal for int")
             ELSE IF end_str = <<>> THEN ParseOk(ParseInt(start_str), None)
             ELSE IF ~IsIntLiteral(end_str) THEN ParseError("invalid literal for int")
             ELSE ParseOk(ParseInt(start_str), Some(ParseInt(end_str)))

\* ------------------------------------------------------------------ paths
\* A path is a sequence of pieces; "/" separates its components.
InputPath == <<"data", "/", "stack", ".tif">>

TrimOutputPath == <<"out", "/", "trimmed", ".tif">>

SplitOutputDir == <<"chunks">>

HasSlash(p) == \E i \in 1..Len(p) : p[i] = "/"

LastSlash(p) == CHOOSE i \in 1..Len(p) : p[i] = "/" /\ \A j \in (i + 1)..Len(p) : p[j] # "/"

\* Path.parent and Path.stem (the final component without its suffix)
Parent(p) == IF HasSlash(p) THEN SubSeq(p, 1, LastSlash(p) - 1) ELSE <<".">>

FinalName(p) == IF HasSlash(p) THEN SubSeq(p, LastSlash(p) + 1, Len(p)) ELSE p

Stem(p) ==
  LET name == FinalName(p)
  IN IF Len(name) > 1 /\ name[Len(name)] \in {".tif", ".tiff"}
     THEN SubSeq(name, 1, Len(name) - 1)
     ELSE name

\* the name with the last frame of the chunk instead of the exclusive end
ChunkPathInclusive(output_dir, input_path, start, end) ==
  output_dir \o <<"/">> \o Stem(input_path) \o <<"_frames_">>
    \o IntToText(start) \o <<"_">> \o IntToText(end - 1) \o <<".tif">>

\* output_dir / f"{input_path.stem}_frames_{start}_{end}.tif"
ChunkPath(output_dir, input_path, start, end) ==
  output_dir \o <<"/">> \o Stem(input_path) \o <<"_frames_">>
    \o IntToText(start) \o <<"_">> \o IntToText(end) \o <<".tif">>

\* ------------------------------------------------------------------- tags
\* the set without 259 (Compression)
AutoHandledWithoutCompression == {256, 257, 258, 262, 277, 278, 279, 284, 317, 320, 339}

AUTO_HANDLED_TAG_CODES == {256, 257, 258, 259, 262, 277, 278, 279, 284, 317, 320, 339}

\* A tag value is a scalar, a tuple, a list, or a value whose read raises.
Scalar(x) == [kind |-> "scalar", v |-> <<x>>]
TupleOf(xs) == [kind |-> "tuple", v |-> xs]
ListOf(xs) == [kind |-> "list", v |-> xs]
Unreadable == [kind |-> "unreadable", v |-> <<>>]

Tag(code, value) ==
  [code |-> code, dtype |-> IF value.kind = "scalar" THEN "SHORT" ELSE "LONG",
   count |-> Len(value.v), value |-> value]

\* one entry of extratags: (int(tag.code), tag.dtype, tag.count, value, False)
ExtraTag(tag) ==
  [code |-> tag.code, dtype |-> tag.dtype, count |-> tag.count,
   value |-> IF tag.value.kind \in {"tuple", "list"} THEN ListOf(tag.value.v)
             ELSE tag.value,
   writeonce |-> FALSE]

\* the loop over page.tags.values(): auto-handled codes are skipped, a tag
\* whose value raises is skipped, the others are appended in order
RECURSIVE ExtraTags(_)
ExtraTags(tags) ==
  IF tags = <<>> THEN <<>>
  ELSE LET tag == Head(tags)
       IN IF tag.code \in AUTO_HANDLED_TAG_CODES THEN ExtraTags(Tail(tags))
          ELSE IF tag.value.kind = "unreadable" THEN ExtraTags(Tail(tags))
          ELSE <<ExtraTag(tag)>> \o ExtraTags(Tail(tags))

\* the record appended to original_pages for one page
PageInfo(page) ==
  [extratags |-> ExtraTags(page.tags),
   description |-> page.description,
   datetime |-> page.datetime,
   resolution |-> page.resolution,
   compression |-> page.compression,
   photometric |-> page.photometric,
   planarconfig |-> page.planarconfig,
   software |-> page.software]

\* --------------------------------------------------------------- slicing
Min(a, b) == IF a < b THEN a ELSE b
Max(a, b) == IF a > b THEN a ELSE b

\* seq[a:b] with Python's clamping of the two indices
SliceIndex(i, n) == IF i < 0 THEN Max(i + n, 0) ELSE Min(i, n)

\* the slice with its first index taken one too far
PySliceSkipFirst(s, a, b) == SubSeq(s, SliceIndex(a, Len(s)) + 2, SliceIndex(b, Len(s)))

PySlice(s, a, b) == SubSeq(s, SliceIndex(a, Len(s)) + 1, SliceIndex(b, Len(s)))

\* tiff.asarray() of a stack: one 2D frame per page
Asarray(pages) == [i \in 1..Len(pages) |-> pages[i].pixels]

\* what tw.write(frame, ..., extratags=..., metadata=...) puts in the file
imagej_metadata == None

OutFrame(frame, page_info, i) ==
  [pixels |-> frame,
   extratags |-> page_info.extratags,
   description |-> page_info.description,
   datetime |-> page_info.datetime,
   resolution |-> page_info.resolution,
   compression |-> page_info.compression,
   photometric |-> page_info.photometric,
   planarconfig |-> page_info.planarconfig,
   software |-> page_info.software,
   metadata |-> IF i = 0 THEN imagej_metadata ELSE None]

\* ------------------------------------------------------------ input files
\* the tags a page may carry: Compression (259), which is auto-handled, and
\* ImageDescription (270) with a value of each kind
TagValues == {Scalar(7), TupleOf(<<1, 2>>), ListOf(<<1, 2>>), Unreadable}

InputTags == {Tag(259, Scalar(1))} \cup {Tag(270, v) : v \in TagValues}

SeqsUpTo(S, n) == UNION {[1..k -> S] : k \in 0..n}

\* page k of a stack carries the tags of the stack's first page with the
\* page number added to every value, and pixels that no other page has
ShiftValue(value, k) == [value EXCEPT !.v = [i \in 1..Len(value.v) |-> value.v[i] + 10 * k]]

MkPage(k, tags) ==
  [pixels |-> k,
   tags |-> [i \in 1..Len(tags) |-> [tags[i] EXCEPT !.value = ShiftValue(tags[i].value, k)]],
   description |-> k,
   datetime |-> k,
   resolution |-> <<1, 1>>,
   compression |-> "NONE",
   photometric |-> "MINISBLACK",
   planarconfig |-> "CONTIG",
   software |-> "acq"]

MkPages(n, tags) == [k \in 1..n |-> MkPage(k - 1, tags)]

InputFiles ==
  {[exists |-> FALSE, ndim |-> 3, pages |-> <<>>]}
    \cup {[exists |-> TRUE, ndim |-> d, pages |-> MkPages(1, <<>>)] : d \in {2, 4}}
    \cup {[exists |-> TRUE, ndim |-> 3, pages |-> MkPages(n, tags)] :
            n \in 0..MaxFrames, tags \in SeqsUpTo(InputTags, MaxTags)}

\* what the output path of trim holds before the call, when it exists
OldFrame == OutFrame(0 - 1, PageInfo(MkPage(0 - 1, <<>>)), 0)

\* ------------------------------------------------------------------ state
VARIABLES
  input,          \* the file at the input path: exists, ndim, pages
  files,          \* output files: path -> frames written
  dirs,           \* directories made by mkdir
  stderr,         \* the stream installed as sys.stderr
  printed,        \* messages printed to the console stream
  pc,             \* position of the running call
  caller,         \* "none", "api" (a direct call) or "cli" (main)
  op,             \* "none", "parse", "trim" or "split"
  args,           \* arguments of the running call
  input_checked,  \* input_path.exists() has been evaluated
  tiff,           \* the TiffFile handle: "unopened", "open", "closed"
  writer,         \* the path of the open TiffWriter, if any
  writer_opens,   \* number of TiffWriter opened by the call
  orig_err,       \* local orig_err
  data_slice,     \* local trimmed_data / chunk_data
  original_pages, \* local original_pages
  ranges,         \* local ranges (split)
  ri,             \* number of ranges of the plan already written (split)
  idx,            \* number of frames already written to the open writer
  written,        \* local written (split)
  result,         \* how the call ended, and what it returned
  exit_code       \* what main returned, if it has

vars ==
  <<input, files, dirs, stderr, printed, pc, caller, op, args, input_checked,
    tiff, writer, writer_opens, orig_err, data_slice, original_pages, ranges,
    ri, idx, written, result, exit_code>>

locals == <<data_slice, original_pages, ranges, ri, idx, written>>

NoArgs ==
  [range_text |-> <<>>, start_frame |-> 0, end_frame |-> None, chunk_size |-> 0,
   block_size |-> 0, quiet |-> TRUE]

NoResult == [status |-> "none", error |-> "none", value |-> <<>>]

Returned(value) == [status |-> "ok", error |-> "none", value |-> value]

Raised(kind) == [status |-> "error", error |-> kind, value |-> <<>>]

EmptyDir == [p \in {} |-> <<>>]

InitCall ==
  /\ pc = "idle"
  /\ caller = "none"
  /\ op = "none"
  /\ args = NoArgs
  /\ input_checked = FALSE
  /\ tiff = "unopened"
  /\ writer = None
  /\ writer_opens = 0
  /\ orig_err = None
  /\ data_slice = <<>>
  /\ original_pages = <<>>
  /\ ranges = <<>>
  /\ ri = 0
  /\ idx = 0
  /\ written = <<>>
  /\ result = NoResult
  /\ exit_code = None
  /\ printed = <<>>
  /\ stderr = "console"
  /\ dirs = {}

Init ==
  /\ input \in InputFiles
  /\ files \in {EmptyDir, TrimOutputPath :> <<OldFrame>>}
  /\ InitCall

\* the finally clause: sys.stderr = orig_err when the warnings were silenced
Restored == IF args.quiet THEN Val(orig_err) ELSE stderr

\* an exception that leaves the function without the finally clause
RaiseNoFinally(kind) ==
  /\ tiff' = IF tiff = "open" THEN "closed" ELSE tiff
  /\ writer' = None
  /\ stderr' = stderr
  /\ result' = Raised(kind)
  /\ pc' = "returned"

\* an exception leaves the with block (the handle, when open, is closed)
\* and the try block (finally), and the call ends
Raise(kind) ==
  /\ tiff' = IF tiff = "open" THEN "closed" ELSE tiff
  /\ writer' = None
  /\ stderr' = Restored
  /\ result' = Raised(kind)
  /\ pc' = "returned"

\* ----------------------------------------------------------- trim_3d_tiff
\* lines 49-59: the existence check, mkdir of the parent, the stream swap
TrimBegin(start_frame, end_frame, quiet) ==
  /\ input_checked' = TRUE
  /\ IF ~input.exists
     THEN /\ result' = Raised("FileNotFoundError")
          /\ pc' = "returned"
          /\ UNCHANGED <<dirs, orig_err, stderr>>
     ELSE /\ dirs' = dirs \cup {Parent(TrimOutputPath)}
          /\ orig_err' = Some(stderr)
          /\ stderr' = IF quiet THEN "StringIO" ELSE stderr
          /\ result' = result
          /\ pc' = "trim_open"
  /\ UNCHANGED <<input, files, printed, tiff, writer, writer_opens, locals>>

Trim ==
  /\ pc = "idle"
  /\ \E start_frame \in (0 - 1)..(MaxFrames + 1),
        end_frame \in {None} \cup {Some(e) : e \in (0 - 1)..(MaxFrames + 1)},
        quiet \in BOOLEAN :
       /\ caller' = "api"
       /\ op' = "trim"
       /\ args' = [NoArgs EXCEPT !.start_frame = start_frame,
                                 !.end_frame = end_frame, !.quiet = quiet]
       /\ TrimBegin(start_frame, end_frame, quiet)
  /\ UNCHANGED exit_code

\* line 64-65: TiffFile(...) opens the handle, asarray() decodes the stack;
\* either may fail
TrimOpen ==
  /\ pc = "trim_open"
  /\ \/ /\ tiff' = "open"
        /\ pc' = "trim_validate"
        /\ UNCHANGED <<writer, stderr, result>>
     \/ Raise("OSError: open")
     \/ /\ tiff' = "closed"
        /\ writer' = None
        /\ stderr' = Restored
        /\ result' = Raised("OSError: read")
        /\ pc' = "returned"
  /\ UNCHANGED <<input, files, dirs, printed, caller, op, args, input_checked,
                 writer_opens, orig_err, locals, exit_code>>

\* the checks without the comparison of start_frame with end_frame
TrimCheckNoOrder(ndim, n_frames, start_frame, end_frame) ==
  IF ndim # 3 THEN "ValueError: shape"
  ELSE IF start_frame < 0 \/ start_frame > n_frames THEN "ValueError: start_frame"
  ELSE IF end_frame < 0 \/ end_frame > n_frames THEN "ValueError: end_frame"
  ELSE "ok"

\* lines 67-82: the checks of the shape and of the range, in the code's order
TrimCheck(ndim, n_frames, start_frame, end_frame) ==
  IF ndim # 3 THEN "ValueError: shape"
  ELSE IF start_frame < 0 \/ start_frame > n_frames THEN "ValueError: start_frame"
  ELSE IF end_frame < 0 \/ end_frame > n_frames THEN "ValueError: end_frame"
  ELSE IF start_frame >= end_frame THEN "ValueError: start_frame must be < end_frame"
  ELSE "ok"

\* lines 84-121: one record per page of tiff.pages[start:end]
OriginalPages(pages, start, end) ==
  LET sel == PySlice(pages, start, end)
  IN [i \in 1..Len(sel) |-> PageInfo(sel[i])]

\* lines 67-123
TrimValidate ==
  /\ pc = "trim_validate"
  /\ LET data == Asarray(input.pages)
         n_frames == Len(data)
         end_frame == IF IsNone(args.end_frame) THEN n_frames ELSE Val(args.end_frame)
         check == TrimCheck(input.ndim, n_frames, args.start_frame, end_frame)
     IN IF check # "ok"
        THEN /\ Raise(check)
             /\ UNCHANGED <<original_pages, data_slice>>
        ELSE /\ original_pages' = OriginalPages(input.pages, args.start_frame, end_frame)
             /\ data_slice' = PySlice(data, args.start_frame, end_frame)
             /\ pc' = "trim_writer"
             /\ UNCHANGED <<tiff, writer, stderr, result>>
  /\ UNCHANGED <<input, files, dirs, printed, caller, op, args, input_checked,
                 writer_opens, orig_err, ranges, ri, idx, written, exit_code>>

\* line 125: TiffWriter(output_path) creates or truncates the file, or fails
TrimOpenWriter ==
  /\ pc = "trim_writer"
  /\ \/ /\ files' = (TrimOutputPath :> <<>>) @@ files
        /\ writer' = Some(TrimOutputPath)
        /\ writer_opens' = writer_opens + 1
        /\ idx' = 0
        /\ pc' = "trim_write"
        /\ UNCHANGED <<tiff, stderr, result>>
     \/ /\ Raise("OSError: create")
        /\ UNCHANGED <<files, writer_opens, idx>>
  /\ UNCHANGED <<input, dirs, printed, caller, op, args, input_checked, orig_err,
                 data_slice, original_pages, ranges, ri, written, exit_code>>

\* zip(frames, pages) has the length of the shorter of the two
ZipLen == Min(Len(data_slice), Len(original_pages))

\* lines 136-148: one tw.write per pair of zip(trimmed_data, original_pages)
TrimWrite ==
  /\ pc = "trim_write"
  /\ idx < ZipLen
  /\ \/ /\ files' = [files EXCEPT ![TrimOutputPath] =
                       Append(@, OutFrame(data_slice[idx + 1], original_pages[idx + 1], idx))]
        /\ idx' = idx + 1
        /\ UNCHANGED <<pc, tiff, writer, stderr, result>>
     \/ /\ Raise("OSError: write")
        /\ UNCHANGED <<files, idx>>
  /\ UNCHANGED <<input, dirs, printed, caller, op, args, input_checked, writer_opens,
                 orig_err, data_slice, original_pages, ranges, ri, written, exit_code>>

\* the with blocks and the try block end: the writer and the handle are
\* closed, the stream is restored, the function returns None
TrimFinish ==
  /\ pc = "trim_write"
  /\ idx = ZipLen
  /\ writer' = None
  /\ tiff' = "closed"
  /\ stderr' = Restored
  /\ result' = Returned(<<>>)
  /\ pc' = "returned"
  /\ UNCHANGED <<input, files, dirs, printed, caller, op, args, input_checked,
                 writer_opens, orig_err, locals, exit_code>>

\* ---------------------------------------------- split_3d_tiff_into_chunks
\* the plan without the min() that truncates the last range
ChunkRangesNoClamp(n_frames, chunk_size) ==
  [k \in 1..((n_frames + chunk_size - 1) \div chunk_size) |->
     <<(k - 1) * chunk_size, (k - 1) * chunk_size + chunk_size>>]

\* line 198: [(start, min(start + chunk_size, n_frames))
\*            for start in range(0, n_frames, chunk_size)]
ChunkRanges(n_frames, chunk_size) ==
  [k \in 1..((n_frames + chunk_size - 1) \div chunk_size) |->
     <<(k - 1) * chunk_size, Min((k - 1) * chunk_size + chunk_size, n_frames)>>]

\* the chunk size checked only after the existence check, mkdir and the swap
SplitBeginLate(chunk_size, quiet) ==
  /\ input_checked' = TRUE
  /\ IF ~input.exists
     THEN /\ result' = Raised("FileNotFoundError")
          /\ pc' = "returned"
          /\ UNCHANGED <<dirs, orig_err, stderr, written>>
     ELSE /\ dirs' = dirs \cup {<<"chunks">>}
          /\ orig_err' = Some(stderr)
          /\ written' = <<>>
          /\ IF chunk_size <= 0
             THEN /\ result' = Raised("ValueError: chunk_size")
                  /\ pc' = "returned"
                  /\ stderr' = stderr
             ELSE /\ stderr' = IF quiet THEN "StringIO" ELSE stderr
                  /\ result' = result
                  /\ pc' = "split_open"
  /\ UNCHANGED <<input, files, printed, tiff, writer, writer_opens, data_slice,
                 original_pages, ranges, ri, idx>>

\* lines 169-184: the chunk size check, the existence check, mkdir, the swap
SplitBegin(chunk_size, quiet) ==
  /\ IF chunk_size <= 0
     THEN /\ result' = Raised("ValueError: chunk_size")
          /\ pc' = "returned"
          /\ UNCHANGED <<input_checked, dirs, orig_err, stderr, written>>
     ELSE /\ input_checked' = TRUE
          /\ IF ~input.exists
             THEN /\ result' = Raised("FileNotFoundError")
                  /\ pc' = "returned"
                  /\ UNCHANGED <<dirs, orig_err, stderr, written>>
             ELSE /\ dirs' = dirs \cup {SplitOutputDir}
                  /\ orig_err' = Some(stderr)
                  /\ stderr' = IF quiet THEN "StringIO" ELSE stderr
                  /\ written' = <<>>
                  /\ result' = result
                  /\ pc' = "split_open"
  /\ UNCHANGED <<input, files, printed, tiff, writer, writer_opens, data_slice,
                 original_pages, ranges, ri, idx>>

Split ==
  /\ pc = "idle"
  /\ \E chunk_size \in (0 - 1)..MaxChunk, quiet \in BOOLEAN :
       /\ caller' = "api"
       /\ op' = "split"
       /\ args' = [NoArgs EXCEPT !.chunk_size = chunk_size, !.quiet = quiet]
       /\ SplitBegin(chunk_size, quiet)
  /\ UNCHANGED exit_code

\* lines 188-189
SplitOpen ==
  /\ pc = "split_open"
  /\ \/ /\ tiff' = "open"
        /\ pc' = "split_plan"
        /\ UNCHANGED <<writer, stderr, result>>
     \/ Raise("OSError: open")
     \/ /\ tiff' = "closed"
        /\ writer' = None
        /\ stderr' = Restored
        /\ result' = Raised("OSError: read")
        /\ pc' = "returned"
  /\ UNCHANGED <<input, files, dirs, printed, caller, op, args, input_checked,
                 writer_opens, orig_err, locals, exit_code>>

\* lines 191-198: the shape check, the early return, the chunk plan
SplitPlan ==
  /\ pc = "split_plan"
  /\ LET n_frames == Len(Asarray(input.pages))
     IN IF input.ndim # 3
        THEN /\ Raise("ValueError: shape")
             /\ UNCHANGED <<ranges, ri>>
        ELSE IF n_frames = 0
        THEN /\ tiff' = "closed"
             /\ stderr' = Restored
             /\ result' = Returned(<<>>)
             /\ pc' = "returned"
             /\ UNCHANGED <<writer, ranges, ri>>
        ELSE /\ ranges' = ChunkRanges(n_frames, args.chunk_size)
             /\ ri' = 0
             /\ pc' = "split_chunk"
             /\ UNCHANGED <<tiff, writer, stderr, result>>
  /\ UNCHANGED <<input, files, dirs, printed, caller, op, args, input_checked,
                 writer_opens, orig_err, data_slice, original_pages, idx, written,
                 exit_code>>

\* lines 210-253: the next range of the plan: its path, its page records,
\* its frames, and the TiffWriter of its file, which may fail to open
SplitChunkOpen ==
  /\ pc = "split_chunk"
  /\ ri < Len(ranges)
  /\ LET start == ranges[ri + 1][1]
         end == ranges[ri + 1][2]
         out_path == ChunkPath(SplitOutputDir, InputPath, start, end)
     IN /\ original_pages' = OriginalPages(input.pages, start, end)
        /\ data_slice' = PySlice(Asarray(input.pages), start, end)
        /\ \/ /\ files' = (out_path :> <<>>) @@ files
              /\ writer' = Some(out_path)
              /\ writer_opens' = writer_opens + 1
              /\ idx' = 0
              /\ pc' = "split_write"
              /\ UNCHANGED <<tiff, stderr, result>>
           \/ /\ Raise("OSError: create")
              /\ UNCHANGED <<files, writer_opens, idx>>
  /\ UNCHANGED <<input, dirs, printed, caller, op, args, input_checked, orig_err,
                 ranges, ri, written, exit_code>>

\* lines 254-266: one tw.write per pair of zip(chunk_data, original_pages)
SplitWrite ==
  /\ pc = "split_write"
  /\ idx < ZipLen
  /\ \/ /\ files' = [files EXCEPT ![Val(writer)] =
                       Append(@, OutFrame(data_slice[idx + 1], original_pages[idx + 1], idx))]
        /\ idx' = idx + 1
        /\ UNCHANGED <<pc, tiff, writer, stderr, result>>
     \/ /\ Raise("OSError: write")
        /\ UNCHANGED <<files, idx>>
  /\ UNCHANGED <<input, dirs, printed, caller, op, args, input_checked, writer_opens,
                 orig_err, data_slice, original_pages, ranges, ri, written, exit_code>>

\* line 268: the writer is closed and written.append(out_path)
SplitChunkClose ==
  /\ pc = "split_write"
  /\ idx = ZipLen
  /\ writer' = None
  /\ written' = Append(written, Val(writer))
  /\ ri' = ri + 1
  /\ pc' = "split_chunk"
  /\ UNCHANGED <<input, files, dirs, stderr, printed, caller, op, args, input_checked,
                 tiff, writer_opens, orig_err, data_slice, original_pages, ranges, idx,
                 result, exit_code>>

\* lines 270-273: return written
SplitFinish ==
  /\ pc = "split_chunk"
  /\ ri = Len(ranges)
  /\ tiff' = "closed"
  /\ stderr' = Restored
  /\ result' = Returned(written)
  /\ pc' = "returned"
  /\ UNCHANGED <<input, files, dirs, printed, caller, op, args, input_checked, writer,
                 writer_opens, orig_err, locals, exit_code>>

\* ------------------------------------------------------------------- main
\* the keyword parameters of the two functions, and the keywords main passes
TrimKeywords == {"quiet_tifffile_warnings", "show_progress"}

SplitKeywords == {"quiet_tifffile_warnings", "show_progress"}

MainTrimKeywords == {"quiet_tifffile_warnings"}

MainSplitKeywords == {"block_size", "quiet_tifffile_warnings"}

\* a call binds only when the function has every keyword passed to it
Binds(signature, passed) == passed \subseteq signature

\* the range texts given to --range
CliTexts ==
  {IntToText(s) \o <<":">> \o e :
     s \in (0 - 1)..(MaxFrames + 1),
     e \in {<<>>} \cup {IntToText(n) : n \in (0 - 1)..(MaxFrames + 1)}}
    \cup {<<"a", "b", "c">>, <<":", "5">>}

\* lines 59-69: --chunk-size given
MainSplit ==
  /\ pc = "idle"
  /\ \E chunk_size \in (0 - 1)..MaxChunk, block_size \in {1, 2, 3}, no_quiet \in BOOLEAN :
       LET quiet == ~no_quiet
       IN /\ caller' = "cli"
          /\ op' = "split"
          /\ args' = [NoArgs EXCEPT !.chunk_size = chunk_size,
                                    !.block_size = block_size, !.quiet = quiet]
          /\ IF Binds(SplitKeywords, MainSplitKeywords)
             THEN SplitBegin(chunk_size, quiet)
             ELSE /\ result' = Raised("TypeError: unexpected keyword argument")
                  /\ pc' = "returned"
                  /\ UNCHANGED <<input, files, dirs, stderr, printed, input_checked, tiff,
                                 writer, writer_opens, orig_err, locals>>
  /\ UNCHANGED exit_code

\* lines 59-61 and 72-79: --range given
MainTrim ==
  /\ pc = "idle"
  /\ \E range_text \in CliTexts, no_quiet \in BOOLEAN :
       LET quiet == ~no_quiet
           r == parse_frame_range(range_text)
       IN /\ caller' = "cli"
          /\ op' = IF r.ok THEN "trim" ELSE "parse"
          /\ args' = [NoArgs EXCEPT !.range_text = range_text, !.start_frame = r.start,
                                    !.end_frame = r.end, !.quiet = quiet]
          /\ IF ~r.ok
             THEN /\ result' = Raised(r.error)
                  /\ pc' = "returned"
                  /\ UNCHANGED <<input, files, dirs, stderr, printed, input_checked, tiff,
                                 writer, writer_opens, orig_err, locals>>
             ELSE IF Binds(TrimKeywords, MainTrimKeywords)
             THEN TrimBegin(r.start, r.end, quiet)
             ELSE /\ result' = Raised("TypeError: unexpected keyword argument")
                  /\ pc' = "returned"
                  /\ UNCHANGED <<input, files, dirs, stderr, printed, input_checked, tiff,
                                 writer, writer_opens, orig_err, locals>>
  /\ UNCHANGED exit_code

\* lines 70, 80-83: return 0, or print "Error: <message>" to sys.stderr and
\* return 2
MainExit ==
  /\ pc = "returned"
  /\ caller = "cli"
  /\ IF result.status = "ok"
     THEN /\ exit_code' = Some(0)
          /\ UNCHANGED printed
     ELSE /\ exit_code' = Some(2)
          /\ printed' = IF stderr = "console"
                        THEN Append(printed, <<"Error: ", result.error>>)
                        ELSE printed
  /\ pc' = "exited"
  /\ UNCHANGED <<input, files, dirs, stderr, caller, op, args, input_checked, tiff,
                 writer, writer_opens, orig_err, locals, result>>

Next ==
  \/ Trim \/ TrimOpen \/ TrimValidate \/ TrimOpenWriter \/ TrimWrite \/ TrimFinish
  \/ Split \/ SplitOpen \/ SplitPlan \/ SplitChunkOpen \/ SplitWrite
  \/ SplitChunkClose \/ SplitFinish
  \/ MainSplit \/ MainTrim \/ MainExit

Spec == Init /\ [][Next]_vars

\* ------------------------------------------- parse_frame_range on its own
Alphabet == {"1", "2", "-", "+", "_", ":", " ", "a"}

RangeTexts == SeqsUpTo(Alphabet, MaxTextLen)

InitParse ==
  /\ input = [exists |-> FALSE, ndim |-> 3, pages |-> <<>>]
  /\ files = EmptyDir
  /\ InitCall

\* a direct call of parse_frame_range
ParseRange ==
  /\ pc = "idle"
  /\ \E range_text \in RangeTexts :
       LET r == parse_frame_range(range_text)
       IN /\ args' = [NoArgs EXCEPT !.range_text = range_text]
          /\ result' = IF r.ok THEN Returned(<<r.start, r.end>>) ELSE Raised(r.error)
  /\ caller' = "api"
  /\ op' = "parse"
  /\ pc' = "returned"
  /\ UNCHANGED <<input, files, dirs, stderr, printed, input_checked, tiff, writer,
                 writer_opens, orig_err, locals, exit_code>>

NextParse == ParseRange

SpecParse == InitParse /\ [][NextParse]_vars

\* ================================================================ claims
Done == pc \in {"returned", "exited"}

NFrames == Len(input.pages)

ResolvedEnd == IF IsNone(args.end_frame) THEN NFrames ELSE Val(args.end_frame)

\* failures of the file system, which no argument causes
OSErrors == {"OSError: open", "OSError: read", "OSError: create", "OSError: write"}

ValidRange ==
  /\ input.exists
  /\ input.ndim = 3
  /\ 0 <= args.start_frame
  /\ args.start_frame < ResolvedEnd
  /\ ResolvedEnd <= NFrames

\* C1: a trim of a 3D stack with 0 <= start < end <= frame_count (an absent
\* end being frame_count) is rejected by no check, and when it returns the
\* output file holds exactly end - start frames, frame i of the output having
\* the pixels of frame start + i of the source.
C1_TrimKeepsFrames ==
  (op = "trim" /\ Done /\ ValidRange) =>
    /\ result.status = "error" => result.error \in OSErrors
    /\ result.status = "ok" =>
         /\ TrimOutputPath \in DOMAIN files
         /\ Len(files[TrimOutputPath]) = ResolvedEnd - args.start_frame
         /\ \A i \in 0..(ResolvedEnd - args.start_frame - 1) :
              files[TrimOutputPath][i + 1].pixels
                = input.pages[args.start_frame + i + 1].pixels

C1_Witness ==
  /\ op = "trim"
  /\ Done
  /\ result.status = "ok"
  /\ args.start_frame = 1
  /\ IsNone(args.end_frame)
  /\ NFrames = 3
  /\ Len(files[TrimOutputPath]) = 2

InvalidTrim ==
  \/ input.ndim # 3
  \/ args.start_frame < 0
  \/ args.start_frame > NFrames
  \/ ResolvedEnd < 0
  \/ ResolvedEnd > NFrames
  \/ args.start_frame >= ResolvedEnd

OutputUntouched ==
  /\ writer_opens = 0
  /\ writer = None
  /\ \A p \in DOMAIN files : p = TrimOutputPath /\ files[p] = <<OldFrame>>

\* C2: a trim of an existing input with start >= end, with start or end
\* outside [0, frame_count], or with an array that is not 3D ends with an
\* error, and at no moment of the call is a writer opened, an output file
\* created or an existing output file changed.
C2_InvalidTrimFailsEarly ==
  (op = "trim" /\ input.exists /\ InvalidTrim) =>
    /\ OutputUntouched
    /\ Done => result.status = "error"

C2_Witness ==
  /\ op = "trim"
  /\ Done
  /\ input.exists
  /\ NFrames = 2
  /\ args.start_frame = 2
  /\ IsNone(args.end_frame)
  /\ result.error = "ValueError: start_frame must be < end_frame"
  /\ TrimOutputPath \in DOMAIN files
  /\ files[TrimOutputPath] = <<OldFrame>>

IsChunkPlan(plan, n, size) ==
  /\ Len(plan) >= 1
  /\ plan[1][1] = 0
  /\ plan[Len(plan)][2] = n
  /\ \A k \in 1..Len(plan) :
       /\ plan[k][1] < plan[k][2]
       /\ plan[k][2] - plan[k][1] <= size
       /\ k < Len(plan) => plan[k][2] - plan[k][1] = size
       /\ k > 1 => plan[k][1] = plan[k - 1][2]
  /\ \A j, k \in 1..Len(plan) :
       j < k => plan[j][2] <= plan[k][1]

\* C3: for frame_count >= 1 and chunk_size >= 1 the plan of split is an
\* ordered sequence of non-empty, disjoint, contiguous ranges from 0 to
\* frame_count, each of length <= chunk_size and all but possibly the last of
\* length chunk_size; 10 frames in chunks of 4 give [0,4), [4,8), [8,10).
C3_ChunkPlan ==
  /\ (op = "split" /\ pc \in {"split_chunk", "split_write"}) =>
       /\ NFrames >= 1
       /\ args.chunk_size >= 1
       /\ IsChunkPlan(ranges, NFrames, args.chunk_size)
  /\ ChunkRanges(10, 4) = <<<<0, 4>>, <<4, 8>>, <<8, 10>>>>

C3_Witness ==
  /\ op = "split"
  /\ pc = "split_chunk"
  /\ NFrames = 3
  /\ args.chunk_size = 2
  /\ ranges = <<<<0, 2>>, <<2, 3>>>>

RECURSIVE FramesIn(_)
FramesIn(paths) ==
  IF paths = <<>> THEN 0 ELSE Len(files[Head(paths)]) + FramesIn(Tail(paths))

ValidSplit == input.exists /\ input.ndim = 3 /\ args.chunk_size > 0

\* C4: when split is requested with a block size > 1 on a valid input and no
\* file system failure occurs, every chunk written except possibly the last
\* has a frame count that is a multiple of block_size, and the chunks
\* written hold all frame_count frames.
C4_BlockSizeChunks ==
  (op = "split" /\ args.block_size > 1 /\ Done /\ ValidSplit
     /\ result.error \notin OSErrors) =>
    /\ \A k \in 1..(Len(written) - 1) : Len(files[written[k]]) % args.block_size = 0
    /\ FramesIn(written) = NFrames

\* C5: main returns 0 for every invocation whose operation is valid (when
\* the file system does not fail), and returns 2 after printing
\* "Error: <message>" exactly when the operation raised an error.
C5_ExitCodes ==
  pc = "exited" =>
    /\ ((op = "trim" /\ ValidRange) \/ (op = "split" /\ ValidSplit))
         /\ result.error \notin OSErrors
         => exit_code = Some(0)
    /\ exit_code = Some(2) <=> result.status = "error"
    /\ exit_code = Some(2) => printed = <<<<"Error: ", result.error>>>>
    /\ exit_code = Some(0) => printed = <<>>

\* C6: split with chunk_size <= 0 ends with an error before the input path
\* is checked or opened, before the output directory is made and before any
\* file is written; called directly, the error is the chunk size error.
C6_ChunkSizeFirst ==
  (op = "split" /\ args.chunk_size <= 0) =>
    /\ pc \in {"returned", "exited"}
    /\ result.status = "error"
    /\ caller = "api" => result.error = "ValueError: chunk_size"
    /\ ~input_checked
    /\ tiff = "unopened"
    /\ dirs = {}
    /\ OutputUntouched

C6_Witness ==
  /\ op = "split"
  /\ caller = "api"
  /\ args.chunk_size = 0
  /\ input.exists
  /\ pc = "returned"
  /\ result.error = "ValueError: chunk_size"

ChunkName(range) ==
  <<"chunks", "/", "stack", "_frames_">> \o IntToText(range[1]) \o <<"_">>
    \o IntToText(range[2]) \o <<".tif">>

\* C7: when split returns, the list returned has one path per range of the
\* plan, in ascending order of start, path k being
\* chunks/stack_frames_<start>_<end>.tif of range k; the files written are
\* exactly the paths returned; a stack of 0 frames gives the empty list and
\* no file.
C7_SplitReturnsPaths ==
  (op = "split" /\ Done /\ result.status = "ok") =>
    LET paths == result.value
    IN /\ Len(paths) = (NFrames + args.chunk_size - 1) \div args.chunk_size
       /\ Len(paths) = Len(ranges)
       /\ \A k \in 1..Len(paths) : paths[k] = ChunkName(ranges[k])
       /\ \A k \in 1..(Len(paths) - 1) : ranges[k][1] < ranges[k + 1][1]
       /\ DOMAIN files \ {TrimOutputPath} = {paths[k] : k \in 1..Len(paths)}
       /\ writer_opens = Len(paths)
       /\ Cardinality({paths[k] : k \in 1..Len(paths)}) = Len(paths)
       /\ NFrames = 0 => paths = <<>> /\ writer_opens = 0

C7_Witness ==
  /\ op = "split"
  /\ Done
  /\ result.status = "ok"
  /\ NFrames = 3
  /\ result.value = <<ChunkName(<<0, 2>>), ChunkName(<<2, 3>>)>>

\* the 12 codes of the auto-handled set
AutoHandled12 == {256, 257, 258, 259, 262, 277, 278, 279, 284, 317, 320, 339}

\* the tags of a page that are carried over, stated on the page itself
CarriedTag(tag) ==
  /\ tag.code \notin AutoHandled12
  /\ tag.value.kind # "unreadable"

SameTag(out, tag) ==
  /\ out.code = tag.code
  /\ out.dtype = tag.dtype
  /\ out.count = tag.count
  /\ out.value.v = tag.value.v
  /\ out.value.kind = IF tag.value.kind = "scalar" THEN "scalar" ELSE "list"

CarriesTagsOf(frame, page) ==
  LET kept == SelectSeq(page.tags, CarriedTag)
  IN /\ Len(frame.extratags) = Len(kept)
     /\ \A t \in 1..Len(kept) : SameTag(frame.extratags[t], kept[t])
     /\ \A t \in 1..Len(frame.extratags) :
          frame.extratags[t].code \notin AutoHandled12

\* frame j (from 0) of the file at path, written from source frame start + j
FileCarriesTags(path, start) ==
  \A j \in 0..(Len(files[path]) - 1) :
    CarriesTagsOf(files[path][j + 1], input.pages[start + j + 1])

\* C8: every frame written by trim, and every frame of every chunk written
\* by split, has as extra tags exactly the tags of source page start + i
\* whose code is not one of the 12 auto-handled codes and whose value can be
\* read, in the order of the source and with equal values, sequences being
\* lists; no auto-handled code is among the extra tags.
C8_TagsCarriedOver ==
  /\ (op = "trim" /\ writer_opens > 0) =>
       FileCarriesTags(TrimOutputPath, args.start_frame)
  /\ op = "split" =>
       /\ \A k \in 1..Len(written) : FileCarriesTags(written[k], ranges[k][1])
       /\ ~IsNone(writer) => FileCarriesTags(Val(writer), ranges[ri + 1][1])

C8_Witness ==
  /\ op = "split"
  /\ Done
  /\ result.status = "ok"
  /\ NFrames = 3
  /\ Len(written) = 2
  /\ Len(input.pages[3].tags) = 2
  /\ input.pages[3].tags[1].code = 259
  /\ input.pages[3].tags[2].value.kind = "tuple"
  /\ Len(files[written[2]]) = 1
  /\ Len(files[written[2]][1].extratags) = 1
  /\ files[written[2]][1].extratags[1].value = ListOf(input.pages[3].tags[2].value.v)

\* the integers whose decimal text the range texts can hold
CanonInts == (0 - 222)..222

CanonTexts == {IntToText(n) : n \in CanonInts}

TextValue(t) == CHOOSE n \in CanonInts : IntToText(n) = t

IsBlank(t) == \A i \in 1..Len(t) : t[i] = " "

\* a text that is no integer: it has no digit, or a character that no
\* integer literal has
NotInteger(t) ==
  \/ ~\E i \in 1..Len(t) : t[i] \in {"0", "1", "2", "3", "4", "5", "6", "7", "8", "9"}
  \/ \E i \in 1..Len(t) :
       t[i] \notin {"0", "1", "2", "3", "4", "5", "6", "7", "8", "9", "+", "-", "_", " "}

ParseErrors == {"format: no separator", "format: empty start", "invalid literal for int"}

\* C9: parse_frame_range returns (start, end) for "start:end" and
\* (start, None) for "start:"; a text without ":" and a text with an empty
\* start part are format errors; a present part that is no integer is a
\* numeric error; negative integers and start >= end are accepted.
C9_ParseFrameRange ==
  (op = "parse" /\ pc = "returned") =>
    LET text == args.range_text
        colons == {i \in 1..Len(text) : text[i] = ":"}
    IN /\ colons = {} => result = Raised("format: no separator")
       /\ result.status = "error" => result.error \in ParseErrors
       /\ \A i \in colons :
            (\A j \in colons : i <= j) =>
              LET left == SubSeq(text, 1, i - 1)
                  right == SubSeq(text, i + 1, Len(text))
              IN /\ IsBlank(left) => result = Raised("format: empty start")
                 /\ (left \in CanonTexts /\ right = <<>>) =>
                      result = Returned(<<TextValue(left), None>>)
                 /\ (left \in CanonTexts /\ right \in CanonTexts) =>
                      result = Returned(<<TextValue(left), Some(TextValue(right))>>)
                 /\ (~IsBlank(left) /\ (NotInteger(left) \/ (~IsBlank(right) /\ NotInteger(right))))
                      => result = Raised("invalid literal for int")

C9_Witness ==
  /\ op = "parse"
  /\ pc = "returned"
  /\ args.range_text = <<"2", ":", "-", "1">>
  /\ result = Returned(<<2, Some(0 - 1)>>)

\* C10: when trim or split has ended, by a return or by any error, the
\* stream installed as sys.stderr is the one installed before the call and
\* the input handle is not open; when the warnings are not silenced the
\* stream is never another one.
C10_StreamRestored ==
  /\ (op \in {"trim", "split"} /\ Done) => (stderr = "console" /\ tiff # "open")
  /\ ~args.quiet => stderr = "console"

C10_Witness ==
  /\ op = "split"
  /\ Done
  /\ args.quiet
  /\ orig_err = Some("console")
  /\ result.error = "OSError: write"
  /\ tiff = "closed"
  /\ stderr = "console"

====
